---- MODULE Spec2Model ----
(***************************************************************************)
(* Model of two pieces of the repository:                                  *)
(*                                                                         *)
(*  - the JSON envelope codec of the CloudFormation resource               *)
(*    AWS::CodeDeploy::DeploymentGroup (MarshalJSON / UnmarshalJSON);      *)
(*  - the pre-run handler chaining of pkg/ctl/cmdutils (AddPreRun) and    *)
(*    the two flag helpers that use it (AddApproveFlag,                    *)
(*    AddCommonFlagsForAWS).                                               *)
(*                                                                         *)
(* Go values are tagged tuples: <<"nil">>, <<"string", s>>,                *)
(* <<"slice", seq>>, <<"map", f>>, <<"ptr", x>>, and, inside an            *)
(* interface{}, <<"int", n>> and <<"float64", n>>.  JSON values are tagged *)
(* tuples too: <<"null">>, <<"str", s>>, <<"num", n>>, <<"arr", seq>>,     *)
(* <<"obj", f>> where f is a function from the member names to values.     *)
(* A []byte holding one JSON object is modelled by that object's function. *)
(***************************************************************************)
EXTENDS Integers, Sequences, FiniteSets, TLC

VARIABLES
    r,        \* the DeploymentGroup at hand (built value, then decode receiver)
    out,      \* the object MarshalJSON last returned, or NoBytes
    orig,     \* the DeploymentGroup that MarshalJSON encoded into out
    b,        \* the object UnmarshalJSON last read, or NoBytes
    pre,      \* the receiver as it was before the last UnmarshalJSON
    err,      \* "nil" or the error UnmarshalJSON last returned
    phase,    \* "new", "built", "encoded", "decoded" (out was read back),
              \* "read" (an envelope written by someone else was read)
    PreRun,   \* cmd.PreRun of the cobra command: NilFn or a function value
    registered, \* handlers given to AddPreRun so far, in call order
    existing, \* the handler cmd.PreRun held before any AddPreRun, or NilFn
    calls,    \* the handler calls the PreRun invocation made, in order, when
              \* the last step on the command was an invocation
    Plan,     \* cmd.Plan of the cmdutils.Cmd
    approveFlag, \* the --approve flag: defined, its default, *approve, Changed
    profileFlag, \* the --profile flag: defined, Changed, the value given on
              \* the command line, and whether the cfn flags came with it
    Profile,  \* p.Profile of the api.ProviderConfig: Name, SourceIsEnvVar
    env,      \* what os.LookupEnv("AWS_PROFILE") returned to the handler
    stage,    \* "setup", "parsed" (command line read), "ran" (PreRun called)
    before    \* cmd.Plan when --approve was defined and when PreRun was called

codecVars == <<r, out, orig, b, pre, err, phase>>
cmdVars == <<PreRun, registered, existing, calls>>
flagVars == <<Plan, approveFlag, profileFlag, Profile, env, stage, before>>
vars ==
    <<r, out, orig, b, pre, err, phase, PreRun, registered, existing, calls,
      Plan, approveFlag, profileFlag, Profile, env, stage, before>>

(***************************************************************************)
(* Bounds                                                                  *)
(***************************************************************************)
MaxDependsOn == 2     \* longest DependsOn sequence built or read
MaxHandlers == 3      \* most AddPreRun calls on one command

LogicalNames == {"A", "B"}

(***************************************************************************)
(* Go and JSON values                                                      *)
(***************************************************************************)
Nil == <<"nil">>
GoString(s) == <<"string", s>>
GoSlice(s) == <<"slice", s>>
GoMap(f) == <<"map", f>>
GoPtr(x) == <<"ptr", x>>

Null == <<"null">>
Str(s) == <<"str", s>>
Num(n) == <<"num", n>>
Arr(s) == <<"arr", s>>
Obj(f) == <<"obj", f>>

NoBytes == <<"nobytes">>
Absent == <<"absent">>
EmptyObject == [k \in {} |-> Null]

\* The object that has the members of rec that are not Absent.
MkObj(rec) == [k \in {x \in DOMAIN rec : rec[x] # Absent} |-> rec[k]]

(***************************************************************************)
(* type DeploymentGroup struct                                             *)
(***************************************************************************)
PointerProps ==
    {"AlarmConfiguration", "ApplicationName", "AutoRollbackConfiguration",
     "AutoScalingGroups", "BlueGreenDeploymentConfiguration", "Deployment",
     "DeploymentConfigName", "DeploymentGroupName", "DeploymentStyle",
     "Ec2TagSet", "LoadBalancerInfo", "OnPremisesTagSet", "ServiceRoleArn"}

SliceProps ==
    {"ECSServices", "Ec2TagFilters", "OnPremisesInstanceTagFilters",
     "TriggerConfigurations"}

PropertyNames == PointerProps \cup SliceProps

RequiredProps == {"ApplicationName", "ServiceRoleArn"}

StringEnvelopeFields ==
    {"AWSCloudFormationDeletionPolicy", "AWSCloudFormationUpdateReplacePolicy",
     "AWSCloudFormationCondition"}

EnvelopeFields ==
    StringEnvelopeFields \cup
    {"AWSCloudFormationDependsOn", "AWSCloudFormationMetadata"}

StructFields == PropertyNames \cup EnvelopeFields

\* The zero value of a field of the struct.
ZeroOf(f) == IF f \in StringEnvelopeFields THEN GoString("") ELSE Nil

\* A newly constructed DeploymentGroup: every field at its zero value.
ZeroDeploymentGroup == [f \in StructFields |-> ZeroOf(f)]

\* A struct whose envelope fields lack the `json:"-"` tag: every field goes
\* to JSON under its own name.
JsonTagExported(f) == f

\* The name a struct field has in JSON; "-" keeps the field out of JSON.
JsonTag(f) == IF f \in EnvelopeFields THEN "-" ELSE f

AWSCloudFormationType == "AWS::CodeDeploy::DeploymentGroup"


(***************************************************************************)
(* encoding/json as MarshalJSON uses it (json.Marshal)                     *)
(***************************************************************************)

\* omitempty: a nil pointer, nil interface, and any empty string, slice or
\* map count as empty.
isEmptyValue(v) ==
    \/ v = Nil
    \/ v[1] = "string" /\ v[2] = ""
    \/ v[1] = "slice" /\ Len(v[2]) = 0
    \/ v[1] = "map" /\ DOMAIN v[2] = {}

\* A Go string that is not valid UTF-8 (here the one byte 0xFF), and what
\* json.Marshal writes for it: the invalid byte replaced by U+FFFD.
InvalidUTF8 == "<0xFF>"
ReplacementRune == "<U+FFFD>"

\* A Go string as the JSON string json.Marshal writes, coerced to valid UTF-8.
EncodeString(s) == Str(IF s = InvalidUTF8 THEN ReplacementRune ELSE s)

\* A value held in an interface{} (a Metadata entry): a Go int and a Go
\* float64 both become a JSON number.
EncodeIface(x) ==
    CASE x[1] = "string" -> EncodeString(x[2])
      [] x[1] = "int" -> Num(x[2])
      [] x[1] = "float64" -> Num(x[2])
      [] OTHER -> Null

\* *types.Value and the nested property structs: a literal encodes as its
\* native JSON counterpart.
EncodeValue(x) == Str(x)

EncodeGo(v) ==
    CASE v[1] = "nil" -> Null
      [] v[1] = "string" -> EncodeString(v[2])
      [] v[1] = "slice" -> Arr([i \in 1..Len(v[2]) |-> EncodeString(v[2][i])])
      [] v[1] = "map" -> Obj([k \in DOMAIN v[2] |-> EncodeIface(v[2][k])])
      [] v[1] = "ptr" -> EncodeValue(v[2])

\* Every property of the struct is tagged `json:"<name>,omitempty"`.
OmitEmpty(f) == f \in PropertyNames

\* json.Marshal of the local type Properties (the struct's fields, without
\* its methods): the fields whose tag is not "-", less the empty omitempty
\* ones.
MarshalProperties(v) ==
    LET keep == {f \in StructFields :
                    /\ JsonTag(f) # "-"
                    /\ ~(OmitEmpty(f) /\ isEmptyValue(v[f]))}
    IN  [k \in keep |-> EncodeGo(v[k])]

\* The struct field each optional member of the envelope is taken from.
EnvelopeSource ==
    [DependsOn |-> "AWSCloudFormationDependsOn",
     Metadata |-> "AWSCloudFormationMetadata",
     DeletionPolicy |-> "AWSCloudFormationDeletionPolicy",
     UpdateReplacePolicy |-> "AWSCloudFormationUpdateReplacePolicy",
     Condition |-> "AWSCloudFormationCondition"]

EnvelopeKeys == {"Type", "Properties"} \cup DOMAIN EnvelopeSource

\* An envelope struct without omitempty tags.
EnvelopeNeverOmits(k) == FALSE

\* The members of the anonymous envelope struct tagged omitempty.
EnvelopeOmitEmpty(k) == k \in DOMAIN EnvelopeSource

\* func (r DeploymentGroup) MarshalJSON() ([]byte, error)
MarshalJSON(v) ==
    LET keep == {k \in EnvelopeKeys :
                    \/ k \in {"Type", "Properties"}
                    \/ ~(EnvelopeOmitEmpty(k) /\ isEmptyValue(v[EnvelopeSource[k]]))}
    IN  [k \in keep |->
            CASE k = "Type" -> Str(AWSCloudFormationType)
              [] k = "Properties" -> Obj(MarshalProperties(v))
              [] OTHER -> EncodeGo(v[EnvelopeSource[k]])]

(***************************************************************************)
(* encoding/json as UnmarshalJSON uses it (json.Decoder.Decode)            *)
(***************************************************************************)

\* The member names the model's inputs use, in the order the decoder meets
\* them.
KeyOrder ==
    <<"Type", "type", "Properties", "DependsOn", "Metadata", "DeletionPolicy",
      "UpdateReplacePolicy", "Condition", "Foo">>

WireKeys == {KeyOrder[i] : i \in 1..Len(KeyOrder)}

\* The fields of the anonymous struct res.
ResFields ==
    {"Type", "Properties", "DependsOn", "Metadata", "DeletionPolicy",
     "UpdateReplacePolicy", "Condition"}

ResStringFields == {"Type", "DeletionPolicy", "UpdateReplacePolicy", "Condition"}

\* res := &struct{...}{}
ZeroRes == [f \in ResFields |-> IF f \in ResStringFields THEN GoString("") ELSE Nil]

\* The case folding of a member name (for the names of WireKeys).
Fold ==
    [Type |-> "type", type |-> "type", Properties |-> "properties",
     DependsOn |-> "dependson", Metadata |-> "metadata",
     DeletionPolicy |-> "deletionpolicy",
     UpdateReplacePolicy |-> "updatereplacepolicy", Condition |-> "condition",
     Foo |-> "foo"]

NoField == ""

\* The field of res a member name decodes into: the field of that name, or
\* else a field whose name equals it under case folding.
FieldFor(k) ==
    IF k \in ResFields THEN k
    ELSE IF \E f \in ResFields : Fold[f] = Fold[k]
         THEN CHOOSE f \in ResFields : Fold[f] = Fold[k]
         ELSE NoField

\* A decoder left at its default: unknown members are skipped.
AllowUnknownFields == FALSE

\* dec.DisallowUnknownFields()
DisallowUnknownFields == TRUE

\* The decoder keeps the first error it saved and goes on decoding.
SaveError(old, new) == IF old = "nil" THEN new ELSE old

\* A JSON value decoded into an interface{}: a number becomes a float64.
DecodeIface(j) ==
    CASE j[1] = "str" -> GoString(j[2])
      [] j[1] = "num" -> <<"float64", j[2]>>
      [] OTHER -> Nil

\* *types.Value and the nested property structs: the reverse of EncodeValue.
DecodeValue(j) == j[2]

\* One member of the Properties object decoded into property f.
DecodeProp(f, v) ==
    CASE v[1] = "null" -> [val |-> Nil, err |-> "nil"]
      [] v[1] = "str" /\ f \in PointerProps ->
            [val |-> GoPtr(DecodeValue(v)), err |-> "nil"]
      [] v[1] = "arr" /\ f \in SliceProps ->
            [val |-> GoSlice([i \in 1..Len(v[2]) |-> v[2][i][2]]), err |-> "nil"]
      [] OTHER -> [val |-> Nil, err |-> "UnmarshalTypeError"]

\* The Properties object p decoded into *Properties (cur is the pointer so
\* far).  Fields tagged "-" are no fields to the decoder.  The inputs hold at
\* most one offending member, so the order of the members does not matter.
DecodeProperties(cur, p) ==
    LET base == IF cur = Nil THEN ZeroDeploymentGroup ELSE cur[2]
        known == {f \in StructFields : JsonTag(f) # "-"}
        unknown == DOMAIN p \ known
        bad == {f \in DOMAIN p \cap known : DecodeProp(f, p[f]).err # "nil"}
    IN  [val |-> GoPtr([f \in StructFields |->
                          IF f \in DOMAIN p \cap known
                          THEN DecodeProp(f, p[f]).val ELSE base[f]]),
         err |-> IF unknown # {} /\ DisallowUnknownFields THEN "UnknownField"
                 ELSE IF bad # {} THEN "UnmarshalTypeError" ELSE "nil"]

\* JSON value v decoded into field f of res, which holds cur.
DecodeInto(f, cur, v) ==
    CASE f \in ResStringFields ->
            IF v[1] = "str" THEN [val |-> GoString(v[2]), err |-> "nil"]
            ELSE IF v[1] = "null" THEN [val |-> cur, err |-> "nil"]
            ELSE [val |-> cur, err |-> "UnmarshalTypeError"]
      [] f = "DependsOn" ->
            IF v[1] = "null" THEN [val |-> Nil, err |-> "nil"]
            ELSE IF v[1] = "arr" /\ \A i \in 1..Len(v[2]) : v[2][i][1] = "str"
            THEN [val |-> GoSlice([i \in 1..Len(v[2]) |-> v[2][i][2]]),
                  err |-> "nil"]
            ELSE [val |-> cur, err |-> "UnmarshalTypeError"]
      [] f = "Metadata" ->
            IF v[1] = "null" THEN [val |-> Nil, err |-> "nil"]
            ELSE IF v[1] = "obj"
            THEN [val |-> GoMap([k \in DOMAIN v[2] |-> DecodeIface(v[2][k])]),
                  err |-> "nil"]
            ELSE [val |-> cur, err |-> "UnmarshalTypeError"]
      [] f = "Properties" ->
            IF v[1] = "null" THEN [val |-> Nil, err |-> "nil"]
            ELSE IF v[1] = "obj" THEN DecodeProperties(cur, v[2])
            ELSE [val |-> cur, err |-> "UnmarshalTypeError"]

\* One member (k, v) of the envelope object decoded into res.
DecodeMember(st, k, v) ==
    LET f == FieldFor(k)
    IN  IF f = NoField
        THEN [res |-> st.res,
              err |-> IF DisallowUnknownFields
                      THEN SaveError(st.err, "UnknownField") ELSE st.err]
        ELSE LET d == DecodeInto(f, st.res[f], v)
             IN  [res |-> [st.res EXCEPT ![f] = d.val],
                  err |-> SaveError(st.err, d.err)]

RECURSIVE DecodeFrom(_, _, _)
DecodeFrom(bytes, i, st) ==
    IF i > Len(KeyOrder) THEN st
    ELSE DecodeFrom(bytes, i + 1,
                    IF KeyOrder[i] \in DOMAIN bytes
                    THEN DecodeMember(st, KeyOrder[i], bytes[KeyOrder[i]])
                    ELSE st)

\* dec.Decode(&res)
Decode(bytes) == DecodeFrom(bytes, 1, [res |-> ZeroRes, err |-> "nil"])

(***************************************************************************)
(* func (r *DeploymentGroup) UnmarshalJSON(b []byte) error                 *)
(***************************************************************************)

\* if res.Properties != nil { *r = DeploymentGroup(*res.Properties) }
LiftProperties(recv, res) ==
    IF res.Properties # Nil THEN res.Properties[2] ELSE recv

\* A decoder that never stores DependsOn.
DropDependsOn(recv, res) == recv

\* if res.DependsOn != nil { r.AWSCloudFormationDependsOn = res.DependsOn }
SetDependsOn(recv, res) ==
    IF res.DependsOn # Nil
    THEN [recv EXCEPT !["AWSCloudFormationDependsOn"] = res.DependsOn]
    ELSE recv

\* if res.Metadata != nil { r.AWSCloudFormationMetadata = res.Metadata }
SetMetadata(recv, res) ==
    IF res.Metadata # Nil
    THEN [recv EXCEPT !["AWSCloudFormationMetadata"] = res.Metadata]
    ELSE recv

\* A decoder that defaults an absent DeletionPolicy to "Delete".
SetDeletionPolicyDefaultDelete(recv, res) ==
    [recv EXCEPT !["AWSCloudFormationDeletionPolicy"] =
        IF res.DeletionPolicy # GoString("") THEN res.DeletionPolicy
        ELSE GoString("Delete")]

\* if res.DeletionPolicy != "" { r.AWSCloudFormationDeletionPolicy = ... }
SetDeletionPolicy(recv, res) ==
    IF res.DeletionPolicy # GoString("")
    THEN [recv EXCEPT !["AWSCloudFormationDeletionPolicy"] = res.DeletionPolicy]
    ELSE recv

\* if res.UpdateReplacePolicy != "" { r.AWSCloudFormationUpdateReplacePolicy = ... }
SetUpdateReplacePolicy(recv, res) ==
    IF res.UpdateReplacePolicy # GoString("")
    THEN [recv EXCEPT !["AWSCloudFormationUpdateReplacePolicy"] =
            res.UpdateReplacePolicy]
    ELSE recv

\* if res.Condition != "" { r.AWSCloudFormationCondition = res.Condition }
SetCondition(recv, res) ==
    IF res.Condition # GoString("")
    THEN [recv EXCEPT !["AWSCloudFormationCondition"] = res.Condition]
    ELSE recv

\* A method that stores what was decoded before it looks at the error.
UnmarshalJSONStoringFirst(recv, bytes) ==
    LET d == Decode(bytes)
    IN  [r |-> SetCondition(
                 SetUpdateReplacePolicy(
                   SetDeletionPolicy(
                     SetMetadata(
                       SetDependsOn(
                         LiftProperties(recv, d.res), d.res),
                       d.res),
                     d.res),
                   d.res),
                 d.res),
         err |-> d.err]

\* The whole method: the receiver afterwards and the error returned.
UnmarshalJSON(recv, bytes) ==
    LET d == Decode(bytes)
    IN  IF d.err # "nil"
        THEN [r |-> recv, err |-> d.err]
        ELSE [r |-> SetCondition(
                      SetUpdateReplacePolicy(
                        SetDeletionPolicy(
                          SetMetadata(
                            SetDependsOn(
                              LiftProperties(recv, d.res), d.res),
                            d.res),
                          d.res),
                        d.res),
                      d.res),
              err |-> "nil"]


(***************************************************************************)
(* pkg/ctl/cmdutils: AddPreRun                                             *)
(***************************************************************************)
NilFn == <<"nilfn">>

\* A handler written elsewhere; calling it is recorded under its name.
Handler(h) == <<"handler", h>>

\* A registration that replaces cmd.PreRun by the new handler alone.
AddPreRunOverride(currentFn, newFn) == <<"closure", NilFn, newFn>>

\* AddPreRun: the value cmd.PreRun is set to, a closure over currentFn (the
\* value cmd.PreRun had) and newFn.
AddPreRun(currentFn, newFn) == <<"closure", currentFn, newFn>>

\* The handler calls that calling fn(cmd, args) makes, in order.
RECURSIVE Call(_, _, _)
Call(fn, cmd, args) ==
    IF fn[1] = "handler"
    THEN << [fn |-> fn[2], cmd |-> cmd, args |-> args] >>
    ELSE (IF fn[2] # NilFn THEN Call(fn[2], cmd, args) ELSE << >>)
         \o Call(fn[3], cmd, args)

(***************************************************************************)
(* The values the model builds, reads and registers                        *)
(***************************************************************************)
RECURSIVE SeqsUpTo(_, _)
SeqsUpTo(S, n) ==
    IF n = 0 THEN {<< >>}
    ELSE LET shorter == SeqsUpTo(S, n - 1)
         IN  shorter \cup {Append(s, x) : s \in shorter, x \in S}

\* The property part of a DeploymentGroup: the properties of set hold a
\* value, those of empties an empty slice, the others nothing.
PropsOf(set, empties) ==
    [f \in PropertyNames |->
        IF f \in set
        THEN (IF f \in SliceProps THEN GoSlice(<<"v">>) ELSE GoPtr("v"))
        ELSE IF f \in empties THEN GoSlice(<< >>) ELSE Nil]

PropChoices ==
    {PropsOf({}, {}),
     PropsOf({"ApplicationName"}, {}),
     PropsOf(RequiredProps, {}),
     PropsOf(RequiredProps, {"ECSServices"}),
     PropsOf(RequiredProps \cup {"DeploymentGroupName", "ECSServices"}, {}),
     PropsOf(PropertyNames, {})}

\* The strings of the closed policy sets.
PolicyValues == {"Delete", "Retain", "Snapshot"}

DeletionPolicyStrings == PolicyValues \cup {"", "Bogus"}
UpdateReplacePolicyStrings == {"", "Snapshot", "Bogus"}

DependsOnValues ==
    {Nil} \cup {GoSlice(s) : s \in SeqsUpTo(LogicalNames, MaxDependsOn)}

MetadataValues ==
    {Nil, GoMap(EmptyObject), GoMap([k |-> GoString("s")]),
     GoMap([k |-> <<"int", 1>>]), GoMap([k |-> <<"float64", 1>>])}

ConditionStrings == {"", "C", InvalidUTF8}

DeploymentGroupOf(p, dp, urp, dep, md, cond) ==
    [f \in StructFields |->
        CASE f \in PropertyNames -> p[f]
          [] f = "AWSCloudFormationDeletionPolicy" -> GoString(dp)
          [] f = "AWSCloudFormationUpdateReplacePolicy" -> GoString(urp)
          [] f = "AWSCloudFormationDependsOn" -> dep
          [] f = "AWSCloudFormationMetadata" -> md
          [] f = "AWSCloudFormationCondition" -> GoString(cond)]

\* The DeploymentGroup values a caller builds.
DeploymentGroups ==
    {DeploymentGroupOf(p, dp, urp, dep, md, cond) :
        p \in PropChoices, dp \in DeletionPolicyStrings,
        urp \in UpdateReplacePolicyStrings, dep \in DependsOnValues,
        md \in MetadataValues, cond \in ConditionStrings}

\* A receiver that was used before: every field holds an earlier value.
UsedDeploymentGroup ==
    [f \in StructFields |->
        CASE f \in PointerProps -> GoPtr("old")
          [] f \in SliceProps -> GoSlice(<<"old">>)
          [] f = "AWSCloudFormationDeletionPolicy" -> GoString("Retain")
          [] f = "AWSCloudFormationUpdateReplacePolicy" -> GoString("Retain")
          [] f = "AWSCloudFormationDependsOn" -> GoSlice(<<"Z">>)
          [] f = "AWSCloudFormationMetadata" -> GoMap([z |-> GoString("old")])
          [] f = "AWSCloudFormationCondition" -> GoString("Z")]

\* The receivers UnmarshalJSON is called on.
Receivers == {ZeroDeploymentGroup, UsedDeploymentGroup}

\* What each member of an input envelope may hold (Absent: no such member).
\* The Type member: none, one named "Type", or one named "type".
TypeNames == {NoField, "Type", "type"}

PropertiesInputs ==
    {Absent, Null, Obj(EmptyObject),
     Obj([ApplicationName |-> Str("v")]),
     Obj([ApplicationName |-> Str("v"), ServiceRoleArn |-> Str("v")]),
     Obj([ApplicationName |-> Str("v"), ServiceRoleArn |-> Str("v"),
          AWSCloudFormationDependsOn |-> Arr(<<Str("A")>>)])}

DependsOnInputs ==
    {Absent, Null, Str("A")} \cup
    {Arr([i \in 1..Len(s) |-> Str(s[i])]) :
        s \in SeqsUpTo(LogicalNames, MaxDependsOn)}

MetadataInputs == {Absent, Obj(EmptyObject), Obj([k |-> Num(1)])}

DeletionPolicyInputs == {Absent} \cup {Str(s) : s \in DeletionPolicyStrings}
UpdateReplacePolicyInputs ==
    {Absent} \cup {Str(s) : s \in UpdateReplacePolicyStrings \ {""}}
ConditionInputs == {Absent, Str("C")}
UnknownInputs == {Absent, Str("x")}

\* The envelope objects UnmarshalJSON is given.
Inputs ==
    {MkObj([Type |-> IF t = "Type" THEN Str(AWSCloudFormationType) ELSE Absent,
            type |-> IF t = "type" THEN Str(AWSCloudFormationType) ELSE Absent,
            Properties |-> p, DependsOn |-> dep,
            Metadata |-> md, DeletionPolicy |-> dp,
            UpdateReplacePolicy |-> urp, Condition |-> cond, Foo |-> foo]) :
        t \in TypeNames, p \in PropertiesInputs,
        dep \in DependsOnInputs, md \in MetadataInputs,
        dp \in DeletionPolicyInputs, urp \in UpdateReplacePolicyInputs,
        cond \in ConditionInputs, foo \in UnknownInputs}

Handlers == {"f", "g", "h"}
ArgLists == {<< >>, <<"name">>}
NoCalls == [invoked |-> FALSE, args |-> << >>, log |-> << >>]

(***************************************************************************)
(* The codec as a state machine                                            *)
(***************************************************************************)
CodecInit ==
    /\ r = ZeroDeploymentGroup
    /\ out = NoBytes
    /\ orig = ZeroDeploymentGroup
    /\ b = NoBytes
    /\ pre = ZeroDeploymentGroup
    /\ err = "nil"
    /\ phase = "new"

CmdInit ==
    /\ PreRun = NilFn
    /\ registered = << >>
    /\ existing = NilFn
    /\ calls = NoCalls

\* The environment variable AWS_PROFILE as os.LookupEnv reports it.
Unset == <<"unset">>
EnvSet(val) == <<"set", val>>

\* A new cmdutils.Cmd and api.ProviderConfig, no flag defined yet.
FlagInit ==
    /\ Plan = FALSE
    /\ approveFlag = [defined |-> FALSE, default |-> FALSE, value |-> FALSE,
                      Changed |-> FALSE]
    /\ profileFlag = [defined |-> FALSE, Changed |-> FALSE, given |-> "",
                      cfn |-> FALSE]
    /\ Profile = [Name |-> "", SourceIsEnvVar |-> FALSE]
    /\ env = Unset
    /\ stage = "setup"
    /\ before = [defined |-> FALSE, ran |-> FALSE]

Init == CodecInit /\ CmdInit /\ FlagInit

\* A new DeploymentGroup is constructed.
New ==
    /\ phase # "new"
    /\ r' = ZeroDeploymentGroup
    /\ out' = NoBytes
    /\ orig' = ZeroDeploymentGroup
    /\ b' = NoBytes
    /\ pre' = ZeroDeploymentGroup
    /\ err' = "nil"
    /\ phase' = "new"
    /\ UNCHANGED cmdVars
    /\ UNCHANGED flagVars

\* The caller sets the fields of the new DeploymentGroup.
Build ==
    /\ phase = "new"
    /\ \E v \in DeploymentGroups : r' = v
    /\ phase' = "built"
    /\ UNCHANGED <<out, orig, b, pre, err>>
    /\ UNCHANGED cmdVars
    /\ UNCHANGED flagVars

\* r.MarshalJSON()
Marshal ==
    /\ phase = "built"
    /\ out' = MarshalJSON(r)
    /\ orig' = r
    /\ phase' = "encoded"
    /\ UNCHANGED <<r, b, pre, err>>
    /\ UNCHANGED cmdVars
    /\ UNCHANGED flagVars

\* recv.UnmarshalJSON(out): the bytes MarshalJSON returned are decoded.
UnmarshalEncoded ==
    /\ phase = "encoded"
    /\ \E recv \in Receivers :
          LET res == UnmarshalJSON(recv, out)
          IN  /\ pre' = recv
              /\ r' = res.r
              /\ err' = res.err
    /\ b' = out
    /\ phase' = "decoded"
    /\ UNCHANGED <<out, orig>>
    /\ UNCHANGED cmdVars
    /\ UNCHANGED flagVars

\* recv.UnmarshalJSON(bytes) on an envelope written by someone else.
UnmarshalInput ==
    /\ phase = "new"
    /\ \E recv \in Receivers, bytes \in Inputs :
          LET res == UnmarshalJSON(recv, bytes)
          IN  /\ pre' = recv
              /\ r' = res.r
              /\ err' = res.err
              /\ b' = bytes
    /\ phase' = "read"
    /\ UNCHANGED <<out, orig>>
    /\ UNCHANGED cmdVars
    /\ UNCHANGED flagVars

Next == New \/ Build \/ Marshal \/ UnmarshalEncoded \/ UnmarshalInput

Spec == Init /\ [][Next]_vars

(***************************************************************************)
(* A cobra command and its pre-run handlers as a state machine             *)
(***************************************************************************)

\* cmd.PreRun = h, before any AddPreRun.
SetPreRun ==
    /\ PreRun = NilFn
    /\ registered = << >>
    /\ \E h \in Handlers :
          /\ PreRun' = Handler(h)
          /\ existing' = Handler(h)
    /\ calls' = NoCalls
    /\ UNCHANGED registered
    /\ UNCHANGED codecVars
    /\ UNCHANGED flagVars

\* AddPreRun(cmd, h)
Register ==
    /\ Len(registered) < MaxHandlers
    /\ \E h \in Handlers :
          /\ PreRun' = AddPreRun(PreRun, Handler(h))
          /\ registered' = Append(registered, h)
    /\ calls' = NoCalls
    /\ UNCHANGED existing
    /\ UNCHANGED codecVars
    /\ UNCHANGED flagVars

\* cobra runs the command: if cmd.PreRun != nil, cmd.PreRun(cmd, args).
Invoke ==
    /\ PreRun # NilFn
    /\ \E args \in ArgLists :
          calls' = [invoked |-> TRUE, args |-> args,
                    log |-> Call(PreRun, "cmd", args)]
    /\ UNCHANGED <<PreRun, registered, existing>>
    /\ UNCHANGED codecVars
    /\ UNCHANGED flagVars

CmdNext == SetPreRun \/ Register \/ Invoke

CmdSpec == Init /\ [][CmdNext]_vars


(***************************************************************************)
(* pkg/ctl/cmdutils: AddApproveFlag and AddCommonFlagsForAWS               *)
(***************************************************************************)

\* A handler that takes --approve whether or not it was given.
ApproveHandlerAlways(st, flag) == [st EXCEPT !.Plan = ~flag.value]

\* The handler AddApproveFlag registers:
\* if cobraCmd.Flag("approve").Changed { cmd.Plan = !*approve }
ApproveHandler(st, flag) ==
    IF flag.Changed THEN [st EXCEPT !.Plan = ~flag.value] ELSE st

\* A handler that lets AWS_PROFILE win over --profile.
ProfileHandlerEnvFirst(st, flag, e) ==
    IF e # Unset
    THEN [st EXCEPT !.Profile = [Name |-> e[2], SourceIsEnvVar |-> TRUE]]
    ELSE st

\* The handler AddCommonFlagsForAWS registers; e is what
\* os.LookupEnv("AWS_PROFILE") returns.
ProfileHandler(st, flag, e) ==
    IF ~flag.Changed
    THEN IF e # Unset
         THEN [st EXCEPT !.Profile = [Name |-> e[2], SourceIsEnvVar |-> TRUE]]
         ELSE st
    ELSE st

\* What calling handler h does to cmd.Plan and p.Profile; the handlers
\* written elsewhere touch neither.
RunHandler(h, st, e) ==
    CASE h = "approve" -> ApproveHandler(st, approveFlag)
      [] h = "profile" -> ProfileHandler(st, profileFlag, e)
      [] OTHER -> st

\* The handler calls of log from the i-th on, made in order.
RECURSIVE RunLog(_, _, _, _)
RunLog(log, i, st, e) ==
    IF i > Len(log) THEN st
    ELSE RunLog(log, i + 1, RunHandler(log[i].fn, st, e), e)

NotGiven == <<"none">>
Given(v) == <<"given", v>>
ApproveArgs == {NotGiven, Given(TRUE), Given(FALSE)}
ProfileArgs == {NotGiven, Given(""), Given("dev")}
EnvValues == {Unset, EnvSet(""), EnvSet("prod")}

\* The caller sets cmd.Plan.
SetPlan ==
    /\ stage = "setup"
    /\ Plan' = ~Plan
    /\ UNCHANGED <<approveFlag, profileFlag, Profile, env, stage, before>>
    /\ UNCHANGED cmdVars
    /\ UNCHANGED codecVars

\* cmd.PreRun = h, or AddPreRun(cmd, h), while the command is set up.
SetUpPreRun == stage = "setup" /\ (SetPreRun \/ Register)

\* AddApproveFlag(fs, cmd), fs being the flag set of cmd.CobraCommand.
AddApproveFlag ==
    /\ stage = "setup"
    /\ ~approveFlag.defined
    /\ Len(registered) < MaxHandlers
    /\ approveFlag' = [defined |-> TRUE, default |-> ~Plan, value |-> ~Plan,
                       Changed |-> FALSE]
    /\ PreRun' = AddPreRun(PreRun, Handler("approve"))
    /\ registered' = Append(registered, "approve")
    /\ calls' = NoCalls
    /\ before' = [before EXCEPT !.defined = Plan]
    /\ UNCHANGED <<Plan, profileFlag, Profile, env, stage, existing>>
    /\ UNCHANGED codecVars

\* AddCommonFlagsForAWS(cmd, p, addCfnOptions): StringVarP stores the
\* flag's default "" in p.Profile.Name.
AddCommonFlagsForAWS ==
    /\ stage = "setup"
    /\ ~profileFlag.defined
    /\ Len(registered) < MaxHandlers
    /\ \E addCfnOptions \in BOOLEAN :
          profileFlag' = [defined |-> TRUE, Changed |-> FALSE, given |-> "",
                          cfn |-> addCfnOptions]
    /\ Profile' = [Profile EXCEPT !.Name = ""]
    /\ PreRun' = AddPreRun(PreRun, Handler("profile"))
    /\ registered' = Append(registered, "profile")
    /\ calls' = NoCalls
    /\ UNCHANGED <<Plan, approveFlag, env, stage, before, existing>>
    /\ UNCHANGED codecVars

\* cobra parses the command line: a flag that is given gets its value
\* stored and is marked Changed.
ParseFlags ==
    /\ stage = "setup"
    /\ \E a \in ApproveArgs, pr \in ProfileArgs :
          /\ a # NotGiven => approveFlag.defined
          /\ pr # NotGiven => profileFlag.defined
          /\ approveFlag' =
                IF a # NotGiven
                THEN [approveFlag EXCEPT !.value = a[2], !.Changed = TRUE]
                ELSE approveFlag
          /\ profileFlag' =
                IF pr # NotGiven
                THEN [profileFlag EXCEPT !.given = pr[2], !.Changed = TRUE]
                ELSE profileFlag
          /\ Profile' =
                IF pr # NotGiven THEN [Profile EXCEPT !.Name = pr[2]]
                ELSE Profile
    /\ stage' = "parsed"
    /\ UNCHANGED <<Plan, env, before>>
    /\ UNCHANGED cmdVars
    /\ UNCHANGED codecVars

\* cobra runs the command: cmd.PreRun(cmd, args), with the handlers' effects.
RunPreRun ==
    /\ stage = "parsed"
    /\ PreRun # NilFn
    /\ \E args \in ArgLists, e \in EnvValues :
          LET log == Call(PreRun, "cmd", args)
              st == RunLog(log, 1, [Plan |-> Plan, Profile |-> Profile], e)
          IN  /\ calls' = [invoked |-> TRUE, args |-> args, log |-> log]
              /\ Plan' = st.Plan
              /\ Profile' = st.Profile
              /\ env' = e
    /\ before' = [before EXCEPT !.ran = Plan]
    /\ stage' = "ran"
    /\ UNCHANGED <<approveFlag, profileFlag, PreRun, registered, existing>>
    /\ UNCHANGED codecVars

FlagNext ==
    \/ SetPlan
    \/ SetUpPreRun
    \/ AddApproveFlag
    \/ AddCommonFlagsForAWS
    \/ ParseFlags
    \/ RunPreRun

FlagSpec == Init /\ [][FlagNext]_vars

(***************************************************************************)
(* Properties                                                              *)
(***************************************************************************)
RecognizedKeys ==
    {"Type", "Properties", "DependsOn", "Metadata", "DeletionPolicy",
     "UpdateReplacePolicy", "Condition"}

\* An attribute that is neither nil, nor "", nor of length 0.
Populated(v) ==
    /\ v # Nil
    /\ v[1] = "string" => v[2] # ""
    /\ v[1] = "slice" => v[2] # << >>
    /\ v[1] = "map" => Cardinality(DOMAIN v[2]) > 0

\* The envelope b holds nothing the decoder objects to, DependsOn aside.
DecodableApartFromDependsOn(bytes) ==
    /\ DOMAIN bytes \subseteq RecognizedKeys
    /\ "Properties" \in DOMAIN bytes /\ bytes.Properties[1] = "obj"
          => DOMAIN bytes.Properties[2] \subseteq PropertyNames

\* C1 as claimed: UnmarshalJSON returns an error for every input object that
\* has a top-level key outside {Type, Properties, DependsOn, Metadata,
\* DeletionPolicy, UpdateReplacePolicy, Condition}.
C1_AnyOtherKeyIsAnError ==
    (phase = "read" /\ \E k \in DOMAIN b : k \notin RecognizedKeys)
        => err # "nil"

\* C1 as amended: UnmarshalJSON returns an error for every input object that
\* has a top-level key matching none of the seven recognized names even when
\* letter case is ignored, whatever the recognized keys hold.
C1_UnmatchedKeyIsAnError ==
    (phase = "read" /\
     \E k \in DOMAIN b : \A f \in RecognizedKeys : Fold[k] # Fold[f])
        => err # "nil"

\* An envelope whose only fault is the member Foo was read and rejected.
C1_Witness ==
    /\ phase = "read"
    /\ DOMAIN b = RecognizedKeys \cup {"Foo"}
    /\ b.DependsOn = Arr(<<Str("A")>>)
    /\ b.Properties[1] = "obj"
    /\ DOMAIN b.Properties[2] = RequiredProps
    /\ err = "UnknownField"

\* C2: MarshalJSON's output always has Type and Properties (an object, empty
\* when no property is set), has each of DependsOn, Metadata, DeletionPolicy,
\* UpdateReplacePolicy and Condition exactly when that attribute is
\* non-empty, and has no other top-level key.
C2_EncodedShape ==
    phase = "encoded" =>
        /\ DOMAIN out \subseteq RecognizedKeys
        /\ {"Type", "Properties"} \subseteq DOMAIN out
        /\ out.Type = Str("AWS::CodeDeploy::DeploymentGroup")
        /\ out.Properties[1] = "obj"
        /\ (\A p \in PropertyNames : r[p] = Nil)
              => DOMAIN out.Properties[2] = {}
        /\ "DependsOn" \in DOMAIN out
              <=> Populated(r["AWSCloudFormationDependsOn"])
        /\ "Metadata" \in DOMAIN out
              <=> Populated(r["AWSCloudFormationMetadata"])
        /\ "DeletionPolicy" \in DOMAIN out
              <=> Populated(r["AWSCloudFormationDeletionPolicy"])
        /\ "UpdateReplacePolicy" \in DOMAIN out
              <=> Populated(r["AWSCloudFormationUpdateReplacePolicy"])
        /\ "Condition" \in DOMAIN out
              <=> Populated(r["AWSCloudFormationCondition"])

\* A value with no property, an empty non-nil DependsOn and Metadata, no
\* policy and a Condition was encoded: Type, Properties and Condition only.
C2_Witness ==
    /\ phase = "encoded"
    /\ \A p \in PropertyNames : r[p] = Nil
    /\ r["AWSCloudFormationDependsOn"] = GoSlice(<< >>)
    /\ r["AWSCloudFormationMetadata"] # Nil
    /\ DOMAIN out = {"Type", "Properties", "Condition"}

\* Every property and all five envelope attributes of v are populated.
AllPopulated(v) == \A f \in StructFields : Populated(v[f])

\* The Metadata entries of v have the Go types JSON decoding produces.
MetadataIsJSONNative(v) ==
    LET md == v["AWSCloudFormationMetadata"]
    IN  md # Nil => \A k \in DOMAIN md[2] : md[2][k][1] \in {"string", "float64"}

\* C3 as claimed: for every DeploymentGroup whose properties and five
\* envelope attributes are all populated, decoding its MarshalJSON output
\* into a newly constructed DeploymentGroup succeeds and yields an equal
\* value.
C3_RoundTrip ==
    (phase = "decoded" /\ pre = ZeroDeploymentGroup /\ AllPopulated(orig))
        => (err = "nil" /\ r = orig)

\* The strings of v are valid UTF-8.
StringsAreValidUTF8(v) ==
    /\ \A f \in StringEnvelopeFields : v[f][2] # InvalidUTF8
    /\ LET dep == v["AWSCloudFormationDependsOn"]
       IN  dep # Nil => \A i \in 1..Len(dep[2]) : dep[2][i] # InvalidUTF8

\* C3 as amended: the same, for the DeploymentGroups whose Metadata entries
\* have the Go types JSON decoding produces (a Go int comes back a float64)
\* and whose strings are valid UTF-8 (an invalid byte comes back U+FFFD).
C3_RoundTripOfJSONNative ==
    (phase = "decoded" /\ pre = ZeroDeploymentGroup /\ AllPopulated(orig)
        /\ MetadataIsJSONNative(orig) /\ StringsAreValidUTF8(orig))
        => (err = "nil" /\ r = orig)

\* A fully populated value with a two-name DependsOn went through encode and
\* decode into a new DeploymentGroup and came back equal.
C3_Witness ==
    /\ phase = "decoded"
    /\ pre = ZeroDeploymentGroup
    /\ AllPopulated(orig)
    /\ MetadataIsJSONNative(orig)
    /\ StringsAreValidUTF8(orig)
    /\ orig["AWSCloudFormationMetadata"] = GoMap([k |-> <<"float64", 1>>])
    /\ orig["AWSCloudFormationDependsOn"] = GoSlice(<<"B", "A">>)
    /\ r = orig

\* C4 as claimed: decoding fails whenever Properties is absent or lacks
\* ApplicationName or ServiceRoleArn; a successful decode never leaves a
\* required property empty.
C4_RequiredPropertiesEnforced ==
    (phase = "read" /\ err = "nil") =>
        /\ "Properties" \in DOMAIN b
        /\ b.Properties[1] = "obj"
        /\ RequiredProps \subseteq DOMAIN b.Properties[2]
        /\ \A p \in RequiredProps : r[p] # Nil

\* C5 as claimed: "DependsOn": "A" and "DependsOn": ["A"] both decode, both
\* to the one-name sequence A, and both encode again as ["A"].
C5_DependsOnNormalized ==
    (phase = "read" /\ DecodableApartFromDependsOn(b)
        /\ "DependsOn" \in DOMAIN b
        /\ b.DependsOn \in {Str("A"), Arr(<<Str("A")>>)})
        => /\ err = "nil"
           /\ r["AWSCloudFormationDependsOn"] = GoSlice(<<"A">>)
           /\ MarshalJSON(r).DependsOn = Arr(<<Str("A")>>)

\* C6 as claimed: after every successful decode, DeletionPolicy and
\* UpdateReplacePolicy are each one of Delete, Retain, Snapshot or unset.
C6_PoliciesAreEnumerated ==
    (phase = "read" /\ err = "nil") =>
        /\ r["AWSCloudFormationDeletionPolicy"][2] \in PolicyValues \cup {""}
        /\ r["AWSCloudFormationUpdateReplacePolicy"][2] \in PolicyValues \cup {""}

\* C7: a resource encoded with DeletionPolicy unset has no DeletionPolicy
\* key in the output, and decoding that output succeeds with DeletionPolicy
\* still unset, whatever the receiver held; the same for UpdateReplacePolicy.
C7_UnsetPolicyStaysUnset ==
    /\ (phase \in {"encoded", "decoded"}
            /\ orig["AWSCloudFormationDeletionPolicy"] = GoString(""))
        => /\ "DeletionPolicy" \notin DOMAIN out
           /\ phase = "decoded" =>
                /\ err = "nil"
                /\ r["AWSCloudFormationDeletionPolicy"] = GoString("")
    /\ (phase \in {"encoded", "decoded"}
            /\ orig["AWSCloudFormationUpdateReplacePolicy"] = GoString(""))
        => /\ "UpdateReplacePolicy" \notin DOMAIN out
           /\ phase = "decoded" =>
                /\ err = "nil"
                /\ r["AWSCloudFormationUpdateReplacePolicy"] = GoString("")

\* A value with both policies unset was encoded and decoded into a receiver
\* that held Retain for both.
C7_Witness ==
    /\ phase = "decoded"
    /\ orig["AWSCloudFormationDeletionPolicy"] = GoString("")
    /\ orig["AWSCloudFormationUpdateReplacePolicy"] = GoString("")
    /\ pre["AWSCloudFormationDeletionPolicy"] = GoString("Retain")
    /\ pre["AWSCloudFormationUpdateReplacePolicy"] = GoString("Retain")
    /\ r["AWSCloudFormationDeletionPolicy"] = GoString("")
    /\ r["AWSCloudFormationUpdateReplacePolicy"] = GoString("")

\* C8 as claimed: UnmarshalJSON never succeeds on an object without a Type
\* member.
C8_TypeIsRequired ==
    (phase = "read" /\ \A k \in DOMAIN b : Fold[k] # Fold["Type"])
        => err # "nil"

\* C9: the Properties object of MarshalJSON's output holds schema property
\* keys only, never DeletionPolicy, UpdateReplacePolicy, DependsOn, Metadata
\* or Condition under any name, however those attributes are set.
C9_PropertiesHoldNoEnvelope ==
    phase = "encoded" =>
        /\ DOMAIN out.Properties[2] \subseteq PropertyNames
        /\ DOMAIN out.Properties[2] \cap (EnvelopeFields \cup RecognizedKeys) = {}

\* A value with all five envelope attributes and all properties set was
\* encoded.
C9_Witness ==
    /\ phase = "encoded"
    /\ AllPopulated(r)
    /\ DOMAIN out = RecognizedKeys
    /\ DOMAIN out.Properties[2] = PropertyNames

\* The call a handler h receives from an invocation with the given args.
CallOf(h, args) == [fn |-> h, cmd |-> "cmd", args |-> args]

\* C10: one invocation of cmd.PreRun calls the handler that was there before
\* (if any) and then every handler given to AddPreRun, each once, in
\* registration order, with the invocation's cmd and args.
C10_HandlersRunInOrder ==
    calls.invoked =>
        calls.log =
            (IF existing # NilFn
             THEN <<CallOf(existing[2], calls.args)>> ELSE << >>)
            \o [i \in 1..Len(registered) |-> CallOf(registered[i], calls.args)]

\* A command with a PreRun of its own and three AddPreRun registrations, one
\* handler twice, was invoked with an argument.
C10_Witness ==
    /\ calls.invoked
    /\ calls.args = <<"name">>
    /\ existing = Handler("h")
    /\ registered = <<"g", "f", "g">>
    /\ Len(calls.log) = 4


\* C11: when the pre-run handler runs, the profile is taken from AWS_PROFILE
\* (Name its value, SourceIsEnvVar true) only if --profile was not given and
\* AWS_PROFILE is set; if --profile was given, the profile keeps the flag's
\* value and SourceIsEnvVar stays false, whatever AWS_PROFILE holds.
C11_ProfilePrecedence ==
    (stage = "ran" /\ profileFlag.defined) =>
        /\ profileFlag.Changed =>
              Profile = [Name |-> profileFlag.given, SourceIsEnvVar |-> FALSE]
        /\ (~profileFlag.Changed /\ env # Unset) =>
              Profile = [Name |-> env[2], SourceIsEnvVar |-> TRUE]
        /\ (~profileFlag.Changed /\ env = Unset) =>
              Profile = [Name |-> "", SourceIsEnvVar |-> FALSE]
        /\ Profile.SourceIsEnvVar => (~profileFlag.Changed /\ env # Unset)

\* --profile dev was given while AWS_PROFILE was prod, and the handler ran
\* after an earlier one: the profile is dev.
C11_Witness ==
    /\ stage = "ran"
    /\ profileFlag.Changed
    /\ profileFlag.given = "dev"
    /\ env = EnvSet("prod")
    /\ registered = <<"f", "profile">>
    /\ Len(calls.log) = 2
    /\ Profile = [Name |-> "dev", SourceIsEnvVar |-> FALSE]


\* C12 as claimed: the resource a successful UnmarshalJSON produces is
\* determined by the input bytes alone: the same bytes decoded into any
\* other receiver yield an equal resource, also when the input has no
\* Properties key or omits envelope fields.
C12_ResultDependsOnBytesOnly ==
    (phase \in {"read", "decoded"} /\ err = "nil") =>
        \A recv \in Receivers : UnmarshalJSON(recv, b).r = r

\* C13: whenever UnmarshalJSON returns an error, every property and every
\* envelope attribute of the receiver is what it was before the call.
C13_FailedDecodeHasNoEffect ==
    (phase \in {"read", "decoded"} /\ err # "nil") => r = pre

\* A used receiver was given an envelope with Properties, DependsOn, Metadata,
\* both policies and a Condition that differ from its own, and with the
\* unknown member Foo: the decode failed.
C13_Witness ==
    /\ phase = "read"
    /\ err # "nil"
    /\ pre = UsedDeploymentGroup
    /\ DOMAIN b = RecognizedKeys \cup {"Foo"}
    /\ b.Properties[1] = "obj"
    /\ b.DependsOn = Arr(<<Str("A"), Str("B")>>)
    /\ b.DeletionPolicy = Str("Delete")
    /\ r = UsedDeploymentGroup


\* The handlers the last PreRun invocation called, in order.
HandlersCalled == [i \in 1..Len(calls.log) |-> calls.log[i].fn]

\* C14: after AddApproveFlag, running the command's PreRun sets cmd.Plan to
\* the negation of the --approve value when the flag was given and leaves
\* cmd.Plan unchanged when it was not; the flag's default is the negation of
\* cmd.Plan at registration; the handlers registered earlier still run.
C14_PlanFollowsApprove ==
    approveFlag.defined =>
        /\ approveFlag.default = ~before.defined
        /\ stage = "ran" =>
              /\ approveFlag.Changed => Plan = ~approveFlag.value
              /\ ~approveFlag.Changed => Plan = before.ran
              /\ HandlersCalled =
                    (IF existing # NilFn THEN <<existing[2]>> ELSE << >>)
                    \o registered

\* cmd.Plan was true when --approve was defined after two handlers, and was
\* then set to false; --approve=false was given: PreRun ran the two handlers
\* and set cmd.Plan to true.
C14_Witness ==
    /\ stage = "ran"
    /\ approveFlag = [defined |-> TRUE, default |-> FALSE, value |-> FALSE,
                      Changed |-> TRUE]
    /\ before = [defined |-> TRUE, ran |-> FALSE]
    /\ existing = Handler("h")
    /\ registered = <<"f", "approve">>
    /\ HandlersCalled = <<"h", "f", "approve">>
    /\ Plan = TRUE

====
